---- MODULE Spec2Model ----
(***************************************************************************)
(* Order state and file-association model of src/app.py (Flask backend of  *)
(* the audio restoration service).                                         *)
(*                                                                         *)
(* State: the orders/ directory (one JSON document per order), the         *)
(* uploads/ directory, the wall clock read by datetime.now(), and the last *)
(* request served together with its response.  One action per HTTP         *)
(* handler; a handler runs to completion (sequential requests).            *)
(*                                                                         *)
(* Strings that the code takes apart (file names) are sequences of         *)
(* one-character strings; all other strings are TLA+ strings.  A JSON      *)
(* object / Python dict is a function whose domain is its set of keys.     *)
(***************************************************************************)
EXTENDS Integers, Sequences, FiniteSets, TLC

\* ---------------------------------------------------------------- bounds
\* number of distinct values the first 8 hex digits of uuid4() take
NumIds == 2
\* number of distinct values of the random part of a stored file name
NumFileIds == 1
\* datetime.now() is read at most MaxClock times
MaxClock == 3
\* number of requests served concurrently (threads of the server)
MaxRequests == 2

\* --------------------------------------------------------- configuration
UPLOAD_FOLDER == "uploads"

MAX_FILE_SIZE == 100 * 1024 * 1024

ALLOWED_EXTENSIONS ==
  { <<"m","p","3">>, <<"w","a","v">>, <<"m","p","4">>, <<"m","4","a">>,
    <<"a","a","c">>, <<"f","l","a","c">>, <<"o","g","g">>, <<"m","o","v">>,
    <<"a","v","i">>, <<"a","i","f","f">>, <<"w","m","a">>,
    <<"w","e","b","m">>, <<"m","k","v">> }

required_fields == <<"customer_email", "customer_name", "service_type", "price">>

\* Python's None (load_order's not-found result, get_json() without a body)
None == [none |-> TRUE]

\* ------------------------------------------------------- dict operations
\* d[k] = v
Put(d, k, v) == [x \in DOMAIN d \cup {k} |-> IF x = k THEN v ELSE d[x]]

\* del d[k]
Del(d, k) == [x \in DOMAIN d \ {k} |-> d[x]]

\* d.get(k, default)
Get(d, k, default) == IF k \in DOMAIN d THEN d[k] ELSE default

\* ------------------------------------------------------ string operations
UpperChars == <<"A", "E", "M", "P", "X">>
LowerChars == <<"a", "e", "m", "p", "x">>

\* str.lower() on one character (restricted to the letters of the model)
LowerChar(c) ==
  IF \E i \in 1..Len(UpperChars) : UpperChars[i] = c
  THEN LowerChars[CHOOSE i \in 1..Len(UpperChars) : UpperChars[i] = c]
  ELSE c

lower(s) == [i \in 1..Len(s) |-> LowerChar(s[i])]

Contains(s, c) == \E i \in 1..Len(s) : s[i] = c

\* s.rsplit('.', 1)[1]: what follows the last dot (s contains a dot)
rsplit_ext(s) ==
  LET i == CHOOSE j \in 1..Len(s) :
             s[j] = "." /\ \A k \in (j+1)..Len(s) : s[k] # "."
  IN SubSeq(s, i + 1, Len(s))

\* characters werkzeug's secure_filename keeps
SafeChars == {"a", "e", "m", "p", "x", "A", "E", "M", "P", "X", "3", ".", "_", "-"}

RECURSIVE lstrip(_)
lstrip(s) == IF s # <<>> /\ Head(s) \in {".", "_"} THEN lstrip(Tail(s)) ELSE s

RECURSIVE rstrip(_)
rstrip(s) ==
  IF s # <<>> /\ s[Len(s)] \in {".", "_"} THEN rstrip(SubSeq(s, 1, Len(s) - 1)) ELSE s

\* secure_filename: drop unsafe characters, strip dots and underscores
secure_filename(s) ==
  rstrip(lstrip(SelectSeq(s, LAMBDA c : c \in SafeChars)))

allowed_file(filename) ==
  Contains(filename, ".") /\ lower(rsplit_ext(filename)) \in ALLOWED_EXTENSIONS

\* a size check that also refuses a file of exactly the limit
TooLargeStrict(file_size) == file_size >= MAX_FILE_SIZE

\* the size check of both upload handlers
TooLarge(file_size) == file_size > MAX_FILE_SIZE

\* ----------------------------------------------------------- identifiers
HexDigits == <<"0","1","2","3","4","5","6","7","8","9","A","B","C","D","E","F">>

RECURSIVE HexUpper(_, _)
\* the n-digit upper-case hexadecimal rendering of v
HexUpper(v, n) ==
  IF n = 0 THEN "" ELSE HexUpper(v \div 16, n - 1) \o HexDigits[(v % 16) + 1]

\* f"WAR-{str(uuid.uuid4())[:8].upper()}", u the value of the 8 hex digits
generate_order_id(u) == "WAR-" \o HexUpper(u, 8)

\* a dict without keys
EmptyDoc == [k \in {} |-> None]

\* ------------------------------------------------------------ record store
\* a store that updates the stored document key by key instead of replacing it
save_order_merge(store, order_data) ==
  LET id == order_data["order_id"]
      old == IF id \in DOMAIN store THEN store[id] ELSE EmptyDoc
  IN Put(store, id,
         [k \in DOMAIN old \cup DOMAIN order_data |->
            IF k \in DOMAIN order_data THEN order_data[k] ELSE old[k]])

\* the single-document store a storage slip would produce
save_order_single(store, order_data) ==
  [k \in {order_data["order_id"]} |-> order_data]

\* json.dump to orders/<order_id>.json, replacing the document
save_order(store, order_data) == Put(store, order_data["order_id"], order_data)

\* a lookup that falls back to some stored document
load_order_fuzzy(store, order_id) ==
  IF order_id \in DOMAIN store THEN store[order_id]
  ELSE IF DOMAIN store # {} THEN store[CHOOSE k \in DOMAIN store : TRUE]
  ELSE None

load_order(store, order_id) ==
  IF order_id \in DOMAIN store THEN store[order_id] ELSE None

\* ------------------------------------------------------------- file names
RECURSIVE Str(_)
\* the string spelled by a sequence of characters
Str(s) == IF s = <<>> THEN "" ELSE Head(s) \o Str(Tail(s))

LowerHexDigits == <<"0","1","2","3","4","5","6","7","8","9","a","b","c","d","e","f">>

RECURSIVE HexLower(_, _)
HexLower(v, n) ==
  IF n = 0 THEN "" ELSE HexLower(v \div 16, n - 1) \o LowerHexDigits[(v % 16) + 1]

\* str(uuid.uuid4()), u the value of its leading hex group (the rest is elided)
file_id_of(u) == HexLower(u, 8)

\* f"{file_id}.{file_extension}"
direct_filename(file_id, file_extension) == file_id \o "." \o Str(file_extension)

\* f"{order_id}_{uuid.uuid4().hex[:8]}.{file_extension}"
order_filename(order_id, h, file_extension) ==
  order_id \o "_" \o HexLower(h, 8) \o "." \o Str(file_extension)

\* os.path.join(UPLOAD_FOLDER, unique_filename)
path_join(folder, name) == folder \o "/" \o name

\* ------------------------------------------------------- order documents
\* a document whose optional pickup flag defaults to true
NewOrderRushDefault(order_id, data, t) ==
  [ order_id          |-> order_id,
    customer_email    |-> data["customer_email"],
    customer_name     |-> data["customer_name"],
    service_type      |-> data["service_type"],
    price             |-> data["price"],
    rush_delivery     |-> Get(data, "rush_delivery", TRUE),
    status            |-> "pending_payment",
    created_at        |-> t,
    file_uploaded     |-> FALSE,
    payment_completed |-> FALSE ]

\* the order_data dict built by create_order
NewOrder(order_id, data, t) ==
  [ order_id          |-> order_id,
    customer_email    |-> data["customer_email"],
    customer_name     |-> data["customer_name"],
    service_type      |-> data["service_type"],
    price             |-> data["price"],
    rush_delivery     |-> Get(data, "rush_delivery", FALSE),
    status            |-> "pending_payment",
    created_at        |-> t,
    file_uploaded     |-> FALSE,
    payment_completed |-> FALSE ]

\* an update that records the file but leaves the flag as it was
MarkFileUploadedNoFlag(order_data, file_path, filename, file_size, t) ==
  Put(Put(Put(Put(Put(order_data,
    "file_path", file_path),
    "original_filename", filename),
    "file_size", file_size),
    "uploaded_at", t),
    "status", "file_uploaded")

\* the update of upload_file
MarkFileUploaded(order_data, file_path, filename, file_size, t) ==
  Put(Put(Put(Put(Put(Put(order_data,
    "file_uploaded", TRUE),
    "file_path", file_path),
    "original_filename", filename),
    "file_size", file_size),
    "uploaded_at", t),
    "status", "file_uploaded")

\* an update that sets the status and forgets the flag
MarkPaidStatusOnly(order_data, data, t) ==
  LET d == Put(Put(order_data,
             "status", "paid"),
             "payment_completed_at", t)
  IN IF "payment_intent_id" \in DOMAIN data
     THEN Put(d, "payment_intent_id", data["payment_intent_id"])
     ELSE d

\* an update that also restamps the creation time
MarkPaidRestamp(order_data, data, t) ==
  LET d == Put(Put(Put(Put(order_data,
             "payment_completed", TRUE),
             "status", "paid"),
             "payment_completed_at", t),
             "created_at", t)
  IN IF "payment_intent_id" \in DOMAIN data
     THEN Put(d, "payment_intent_id", data["payment_intent_id"])
     ELSE d

\* the update of payment_success
MarkPaid(order_data, data, t) ==
  LET d == Put(Put(Put(order_data,
             "payment_completed", TRUE),
             "status", "paid"),
             "payment_completed_at", t)
  IN IF "payment_intent_id" \in DOMAIN data
     THEN Put(d, "payment_intent_id", data["payment_intent_id"])
     ELSE d

\* a view that returns the stored document as it is
RawOrder(order_data) == order_data

\* get_order's response_data: a copy without file_path
SanitizedOrder(order_data) ==
  IF "file_path" \in DOMAIN order_data THEN Del(order_data, "file_path") ELSE order_data

\* list_orders' safe_data
SafeData(order_data) ==
  [ order_id          |-> order_data["order_id"],
    customer_email    |-> order_data["customer_email"],
    status            |-> order_data["status"],
    created_at        |-> order_data["created_at"],
    file_uploaded     |-> Get(order_data, "file_uploaded", FALSE),
    payment_completed |-> Get(order_data, "payment_completed", FALSE) ]

\* ------------------------------------------------------------------ state
VARIABLES
  orders,   \* the orders/ directory: order_id -> stored JSON document
  uploads,  \* the uploads/ directory: stored file name -> size of its content
  now,      \* the clock read by datetime.now()
  last,     \* the last request served, the document it loaded, its response
  requests  \* requests served concurrently: each one's input, the document
            \* it loaded, where it stands ("loaded", "done") and its answer

vars == <<orders, uploads, now, last, requests>>

\* ----------------------------------------------------------------- inputs
\* values of the leading hex digits of a uuid4
IdSpace == 1..NumIds

FileIdSpace == 1..NumFileIds

\* order ids a URL can carry: every id the generator can produce and one it cannot
UrlIds == {generate_order_id(u) : u \in IdSpace} \cup {"nope"}

FullData ==
  [customer_email |-> "a@b.com", customer_name |-> "A",
   service_type |-> "restore", price |-> 50]

RushData ==
  [customer_email |-> "c@d.com", customer_name |-> "A",
   service_type |-> "restore", price |-> 50, rush_delivery |-> TRUE]

\* create-order bodies that carry every required field
ValidBodies == {FullData, RushData}

\* request.get_json() of create-order: no JSON object, or an object
CreateBodies ==
  { None,
    FullData,
    Del(FullData, "customer_email"),
    Del(FullData, "service_type"),
    Del(Del(FullData, "customer_name"), "price"),
    [rush_delivery |-> TRUE] }

\* request.get_json() of payment-success
PaymentBodies == { None, [payment_intent_id |-> "pi_1"] }

File(filename, size) == [filename |-> filename, size |-> size]

\* an upload both checks let through
GoodFile == File(<<"a", ".", "M", "P", "3">>, MAX_FILE_SIZE)

\* request.files: no 'file' part (None), or a file of some name and size
Files ==
  { None,
    File(<<>>, 1),
    GoodFile,
    File(<<"a", ".", "m", "p", "3">>, MAX_FILE_SIZE + 1),
    File(<<"a", ".", "e", "x", "e">>, 1),
    File(<<"a", ".", "m", "p", "3", ".", "e", "x", "e">>, 1),
    File(<<"m", "p", "3">>, 1),
    File(<<"#", ".", "m", "p", "3">>, 1) }

\* ------------------------------------------------------------------- Init
EmptyDir == [k \in {} |-> None]

Init ==
  /\ orders = EmptyDir
  /\ uploads = EmptyDir
  /\ now = 0
  /\ last = [op |-> "none", req |-> None, order_data |-> None, code |-> 0, body |-> None]
  /\ requests = <<>>

\* a handler that runs to completion answers and leaves no request behind
Respond(op, req, order_data, code, body) ==
  /\ last' = [op |-> op, req |-> req, order_data |-> order_data, code |-> code, body |-> body]
  /\ UNCHANGED requests

Error(msg) == [error |-> msg]

\* --------------------------------------------------------------- handlers
\* POST /api/create-order
create_order(data) ==
  LET req == [data |-> data]
      absent == IF data = None THEN {}
                ELSE {i \in 1..Len(required_fields) : required_fields[i] \notin DOMAIN data}
  IN
  IF data = None
  THEN \* "field not in data" raises TypeError, caught by the handler
       /\ Respond("create_order", req, None, 500, Error("Failed to create order"))
       /\ UNCHANGED <<orders, uploads, now>>
  ELSE IF absent # {}
  THEN LET i == CHOOSE j \in absent : \A k \in absent : j <= k
       IN /\ Respond("create_order", req, None, 400,
                     Error("Missing required field: " \o required_fields[i]))
          /\ UNCHANGED <<orders, uploads, now>>
  ELSE \E u \in IdSpace :   \* the draw of uuid4
         LET order_id == generate_order_id(u)
             order_data == NewOrder(order_id, data, now)
         IN /\ now < MaxClock
            /\ orders' = save_order(orders, order_data)
            /\ now' = now + 1
            /\ Respond("create_order", req, None, 200,
                       [success |-> TRUE, order_id |-> order_id,
                        message |-> "Order created successfully"])
            /\ UNCHANGED uploads

\* POST /api/upload
upload_file_direct(file) ==
  LET req == [file |-> file]
      Reject(code, msg) ==
        /\ Respond("upload_file_direct", req, None, code, Error(msg))
        /\ UNCHANGED <<orders, uploads, now>>
  IN
  IF file = None THEN Reject(400, "No file provided")
  ELSE IF file.filename = <<>> THEN Reject(400, "No file selected")
  ELSE IF ~allowed_file(file.filename)
  THEN Reject(400, "Invalid file type. Please upload an audio or video file.")
  ELSE IF TooLarge(file.size) THEN Reject(400, "File size exceeds 100MB limit")
  ELSE LET filename == secure_filename(file.filename) IN
       IF ~Contains(filename, ".")
       THEN \* rsplit('.', 1)[1] raises IndexError, caught by the handler
            Reject(500, "Failed to upload file")
       ELSE \E u \in FileIdSpace :   \* the draw of uuid4
              LET file_id == file_id_of(u)
                  file_extension == lower(rsplit_ext(filename))
                  unique_filename == direct_filename(file_id, file_extension)
              IN /\ uploads' = Put(uploads, unique_filename, file.size)
                 /\ Respond("upload_file_direct", req, None, 200,
                            [success |-> TRUE, message |-> "File uploaded successfully",
                             file_id |-> file_id, filename |-> filename,
                             file_size |-> file.size])
                 /\ UNCHANGED <<orders, now>>

\* POST /api/upload-file/<order_id>
upload_file(order_id, file) ==
  LET req == [order_id |-> order_id, file |-> file]
      order_data == load_order(orders, order_id)
      Reject(code, msg) ==
        /\ Respond("upload_file", req, order_data, code, Error(msg))
        /\ UNCHANGED <<orders, uploads, now>>
  IN
  IF order_data = None THEN Reject(404, "Order not found")
  ELSE IF file = None THEN Reject(400, "No file provided")
  ELSE IF file.filename = <<>> THEN Reject(400, "No file selected")
  ELSE IF ~allowed_file(file.filename)
  THEN Reject(400, "Invalid file type. Please upload an audio or video file.")
  ELSE IF TooLarge(file.size) THEN Reject(400, "File size exceeds 100MB limit")
  ELSE LET filename == secure_filename(file.filename) IN
       IF ~Contains(filename, ".")
       THEN \* rsplit('.', 1)[1] raises IndexError, caught by the handler
            Reject(500, "Failed to upload file")
       ELSE \E h \in FileIdSpace :   \* the draw of uuid4
              LET file_extension == lower(rsplit_ext(filename))
                  unique_filename == order_filename(order_id, h, file_extension)
                  file_path == path_join(UPLOAD_FOLDER, unique_filename)
              IN /\ now < MaxClock
                 /\ uploads' = Put(uploads, unique_filename, file.size)
                 /\ orders' = save_order(orders,
                      MarkFileUploaded(order_data, file_path, filename, file.size, now))
                 /\ now' = now + 1
                 /\ Respond("upload_file", req, order_data, 200,
                            [success |-> TRUE, message |-> "File uploaded successfully",
                             order_id |-> order_id, filename |-> filename,
                             file_size |-> file.size])

\* a handler that writes the sanitized view back to the store
get_order_saving(order_id) ==
  LET req == [order_id |-> order_id]
      order_data == load_order(orders, order_id)
  IN
  IF order_data = None
  THEN /\ Respond("get_order", req, order_data, 404, Error("Order not found"))
       /\ UNCHANGED <<orders, uploads, now>>
  ELSE /\ Respond("get_order", req, order_data, 200, SanitizedOrder(order_data))
       /\ orders' = save_order(orders, SanitizedOrder(order_data))
       /\ UNCHANGED <<uploads, now>>

\* GET /api/order/<order_id>
get_order(order_id) ==
  LET req == [order_id |-> order_id]
      order_data == load_order(orders, order_id)
  IN
  /\ IF order_data = None
     THEN Respond("get_order", req, order_data, 404, Error("Order not found"))
     ELSE Respond("get_order", req, order_data, 200, SanitizedOrder(order_data))
  /\ UNCHANGED <<orders, uploads, now>>

\* a handler that records a payment only for an order that has its file
payment_success_after_upload(order_id, json) ==
  LET req == [order_id |-> order_id, data |-> json]
      order_data == load_order(orders, order_id)
  IN
  IF order_data = None
  THEN /\ Respond("payment_success", req, order_data, 404, Error("Order not found"))
       /\ UNCHANGED <<orders, uploads, now>>
  ELSE IF ~order_data["file_uploaded"]
  THEN /\ Respond("payment_success", req, order_data, 400, Error("No file uploaded"))
       /\ UNCHANGED <<orders, uploads, now>>
  ELSE LET data == IF json = None THEN EmptyDir ELSE json
       IN /\ now < MaxClock
          /\ orders' = save_order(orders, MarkPaid(order_data, data, now))
          /\ now' = now + 1
          /\ Respond("payment_success", req, order_data, 200,
                     [success |-> TRUE, message |-> "Payment recorded successfully",
                      order_id |-> order_id])
          /\ UNCHANGED uploads

\* POST /api/payment-success/<order_id>
payment_success(order_id, json) ==
  LET req == [order_id |-> order_id, data |-> json]
      order_data == load_order(orders, order_id)
  IN
  IF order_data = None
  THEN /\ Respond("payment_success", req, order_data, 404, Error("Order not found"))
       /\ UNCHANGED <<orders, uploads, now>>
  ELSE LET data == IF json = None THEN EmptyDir ELSE json   \* get_json() or {}
       IN /\ now < MaxClock
          /\ orders' = save_order(orders, MarkPaid(order_data, data, now))
          /\ now' = now + 1
          /\ Respond("payment_success", req, order_data, 200,
                     [success |-> TRUE, message |-> "Payment recorded successfully",
                      order_id |-> order_id])
          /\ UNCHANGED uploads

\* GET /api/orders; the entries in the arbitrary order of os.listdir, as a set
list_orders ==
  LET listed == {load_order(orders, order_id) : order_id \in DOMAIN orders}
  IN
  /\ Respond("list_orders", None, None, 200,
             [orders |-> {SafeData(order_data) : order_data \in listed \ {None}}])
  /\ UNCHANGED <<orders, uploads, now>>

\* ---------------------------------------------------------- specifications
\* The order lifecycle: well-formed requests on known and unknown orders.
Next ==
  \/ \E data \in ValidBodies : create_order(data)
  \/ \E order_id \in UrlIds : upload_file(order_id, GoodFile)
  \/ \E order_id \in UrlIds, json \in PaymentBodies : payment_success(order_id, json)
  \/ \E order_id \in UrlIds : get_order(order_id)
  \/ list_orders

Spec == Init /\ [][Next]_vars

\* Request validation: every shape of create-order body and of upload.
NextInputs ==
  \/ \E data \in CreateBodies : create_order(data)
  \/ \E file \in Files : upload_file_direct(file)
  \/ \E order_id \in UrlIds, file \in Files : upload_file(order_id, file)

SpecInputs == Init /\ [][NextInputs]_vars

\* Reads and unbound uploads next to the requests that write orders.
NextViews ==
  \/ create_order(FullData)
  \/ \E order_id \in UrlIds : upload_file(order_id, GoodFile)
  \/ \E order_id \in UrlIds : payment_success(order_id, None)
  \/ \E file \in Files : upload_file_direct(file)
  \/ \E order_id \in UrlIds : get_order(order_id)
  \/ list_orders

SpecViews == Init /\ [][NextViews]_vars

\* ------------------------------------------------------ concurrent requests
\* upload-file and payment-success served by concurrent threads: a request
\* first loads the order (Begin), other requests may run, then it checks its
\* input, updates the copy it loaded and saves it (Finish).
Request(op, req, order_data, pc, code, body) ==
  [op |-> op, req |-> req, order_data |-> order_data, pc |-> pc, code |-> code, body |-> body]

Answered(r, code, body) == Request(r.op, r.req, r.order_data, "done", code, body)

LastOf(r) ==
  [op |-> r.op, req |-> r.req, order_data |-> r.order_data, code |-> r.code, body |-> r.body]

\* order_data = load_order(order_id); 404 when there is none
Begin(op, req) ==
  LET order_data == load_order(orders, req.order_id)
      r == IF order_data = None
           THEN Request(op, req, order_data, "done", 404, Error("Order not found"))
           ELSE Request(op, req, order_data, "loaded", 0, None)
  IN /\ Len(requests) < MaxRequests
     /\ requests' = Append(requests, r)
     /\ last' = IF r.pc = "done" THEN LastOf(r) ELSE last
     /\ UNCHANGED <<orders, uploads, now>>

BeginUpload(order_id, file) == Begin("upload_file", [order_id |-> order_id, file |-> file])

BeginPayment(order_id, json) ==
  Begin("payment_success", [order_id |-> order_id, data |-> json])

\* the rest of upload_file, on the copy loaded at Begin
FinishUpload(i) ==
  LET r == requests[i]
      file == r.req.file
      Reject(code, msg) ==
        /\ requests' = [requests EXCEPT ![i] = Answered(r, code, Error(msg))]
        /\ last' = LastOf(Answered(r, code, Error(msg)))
        /\ UNCHANGED <<orders, uploads, now>>
  IN
  /\ r.op = "upload_file"
  /\ r.pc = "loaded"
  /\ IF file = None THEN Reject(400, "No file provided")
     ELSE IF file.filename = <<>> THEN Reject(400, "No file selected")
     ELSE IF ~allowed_file(file.filename)
     THEN Reject(400, "Invalid file type. Please upload an audio or video file.")
     ELSE IF TooLarge(file.size) THEN Reject(400, "File size exceeds 100MB limit")
     ELSE LET filename == secure_filename(file.filename) IN
          IF ~Contains(filename, ".")
          THEN Reject(500, "Failed to upload file")
          ELSE \E h \in FileIdSpace :   \* the draw of uuid4
                 LET file_extension == lower(rsplit_ext(filename))
                     unique_filename == order_filename(r.req.order_id, h, file_extension)
                     file_path == path_join(UPLOAD_FOLDER, unique_filename)
                     done == Answered(r, 200,
                               [success |-> TRUE, message |-> "File uploaded successfully",
                                order_id |-> r.req.order_id, filename |-> filename,
                                file_size |-> file.size])
                 IN /\ now < MaxClock
                    /\ uploads' = Put(uploads, unique_filename, file.size)
                    /\ orders' = save_order(orders,
                         MarkFileUploaded(r.order_data, file_path, filename, file.size, now))
                    /\ now' = now + 1
                    /\ requests' = [requests EXCEPT ![i] = done]
                    /\ last' = LastOf(done)

\* the rest of payment_success, on the copy loaded at Begin
FinishPayment(i) ==
  LET r == requests[i]
      data == IF r.req.data = None THEN EmptyDoc ELSE r.req.data   \* get_json() or {}
      done == Answered(r, 200,
                [success |-> TRUE, message |-> "Payment recorded successfully",
                 order_id |-> r.req.order_id])
  IN
  /\ r.op = "payment_success"
  /\ r.pc = "loaded"
  /\ now < MaxClock
  /\ orders' = save_order(orders, MarkPaid(r.order_data, data, now))
  /\ now' = now + 1
  /\ requests' = [requests EXCEPT ![i] = done]
  /\ last' = LastOf(done)
  /\ UNCHANGED uploads

NextConcurrent ==
  \/ create_order(FullData)
  \/ \E order_id \in UrlIds : BeginUpload(order_id, GoodFile)
  \/ \E order_id \in UrlIds : BeginPayment(order_id, None)
  \/ \E i \in 1..Len(requests) : FinishUpload(i)
  \/ \E i \in 1..Len(requests) : FinishPayment(i)

SpecConcurrent == Init /\ [][NextConcurrent]_vars

\* The record store alone: save_order and load_order called on the documents
\* the handlers write (a new order, the same order paid, the same with a file).
StoreDocs ==
  UNION { LET fresh == NewOrder(generate_order_id(u), FullData, 0)
          IN { fresh,
               MarkPaid(fresh, EmptyDoc, 1),
               MarkFileUploaded(fresh,
                 path_join(UPLOAD_FOLDER,
                           order_filename(generate_order_id(u), 1, <<"m", "p", "3">>)),
                 GoodFile.filename, GoodFile.size, 1) }
          : u \in IdSpace }

\* the path save_order writes and returns
order_file(order_id) == "orders/" \o order_id \o ".json"

\* a call of save_order; last.order_data keeps what the file held before
Save(order_data) ==
  /\ orders' = save_order(orders, order_data)
  /\ Respond("save_order", [order_data |-> order_data],
             load_order(orders, order_data["order_id"]), 0,
             [order_file |-> order_file(order_data["order_id"])])
  /\ UNCHANGED <<uploads, now>>

\* a call of load_order; last.body is what it returns
Load(order_id) ==
  /\ Respond("load_order", [order_id |-> order_id], None, 0, load_order(orders, order_id))
  /\ UNCHANGED <<orders, uploads, now>>

NextStore ==
  \/ \E order_data \in StoreDocs : Save(order_data)
  \/ \E order_id \in UrlIds : Load(order_id)

SpecStore == Init /\ [][NextStore]_vars

\* ------------------------------------------------------------------ claims
Rank(status) ==
  CASE status = "pending_payment" -> 0
    [] status = "file_uploaded"   -> 1
    [] status = "paid"            -> 2

\* C1: status never regresses: with pending_payment < file_uploaded < paid, no
\* request moves the status stored in an order's record to a lower value
\* than the one it held before (an upload on a paid order leaves it paid).
\* The order is the one its record was created for: a record written anew by
\* create-order (a new created_at) is another order.
C1_StatusNeverRegresses ==
  [][\A k \in DOMAIN orders :
       (k \in DOMAIN orders' /\ orders'[k]["created_at"] = orders[k]["created_at"])
         => Rank(orders'[k]["status"]) >= Rank(orders[k]["status"])]_vars

\* C2: no transition is reversible: once a record has file_uploaded = true
\* (payment_completed = true), the flag is true in that record in every later
\* state, whatever create-order, upload-file or payment-success follows.
C2_FlagsNeverReset ==
  [][\A k \in DOMAIN orders :
       /\ orders[k]["file_uploaded"] =>
            k \in DOMAIN orders' /\ orders'[k]["file_uploaded"]
       /\ orders[k]["payment_completed"] =>
            k \in DOMAIN orders' /\ orders'[k]["payment_completed"]]_vars

\* C3: the order_id returned by a successful create_order is unique: no
\* record existed under it, so no earlier order's record is overwritten.
C3_FreshOrderId ==
  [][(last'.op = "create_order" /\ last'.code = 200)
       => last'.body["order_id"] \notin DOMAIN orders]_vars

\* C4: payment-success on an existing order leaves status = paid and
\* payment_completed = true; applied to a record a payment already left paid
\* it changes nothing but payment_completed_at, and payment_intent_id when
\* the request supplies one (no field appears or disappears otherwise).
C4_PaymentIdempotent ==
  [][(last'.op = "payment_success" /\ last'.code = 200) =>
       LET k == last'.req.order_id
           before == orders[k]
           after == orders'[k]
           supplied == last'.req.data # None
                       /\ "payment_intent_id" \in DOMAIN last'.req.data
           free == {"payment_completed_at"}
                   \cup (IF supplied THEN {"payment_intent_id"} ELSE {})
       IN /\ after["status"] = "paid"
          /\ after["payment_completed"] = TRUE
          /\ supplied => after["payment_intent_id"] = last'.req.data["payment_intent_id"]
          /\ (before["status"] = "paid" /\ before["payment_completed"]) =>
               /\ DOMAIN after = DOMAIN before \cup free
               /\ \A f \in DOMAIN before \ free : after[f] = before[f]
               /\ after["file_uploaded"] = before["file_uploaded"]]_vars

\* a second payment-success has been applied to an order already paid
C4_Witness ==
  /\ last.op = "payment_success"
  /\ last.code = 200
  /\ last.order_data["status"] = "paid"
  /\ last.order_data["payment_completed"]
  /\ orders[last.req.order_id]["payment_completed_at"]
       > last.order_data["payment_completed_at"]

\* C5: get_order issued right after a successful create_order, for the id it
\* returned, answers 200 with status = pending_payment, both flags false,
\* the four submitted fields, and rush_delivery false when it was omitted.
C5_GetAfterCreate ==
  [][(/\ last.op = "create_order" /\ last.code = 200
      /\ last'.op = "get_order"
      /\ last'.req.order_id = last.body["order_id"]) =>
       LET data == last.req.data
           body == last'.body
       IN /\ last'.code = 200
          /\ body["order_id"] = last.body["order_id"]
          /\ body["status"] = "pending_payment"
          /\ body["file_uploaded"] = FALSE
          /\ body["payment_completed"] = FALSE
          /\ \A f \in {"customer_email", "customer_name", "service_type", "price"} :
               body[f] = data[f]
          /\ body["rush_delivery"] =
               (IF "rush_delivery" \in DOMAIN data THEN data["rush_delivery"] ELSE FALSE)]_vars

\* get_order has answered with an order that the latest clock reading
\* created, submitted without rush_delivery
C5_Witness ==
  /\ last.op = "get_order"
  /\ last.code = 200
  /\ last.body["created_at"] = now - 1
  /\ last.body["status"] = "pending_payment"
  /\ last.body["customer_email"] = "a@b.com"
  /\ last.body["rush_delivery"] = FALSE

\* C6: upload-file and payment-success on an order_id with no record answer
\* 404 and change nothing: no record created or modified, no file stored.
C6_UnknownOrderRejected ==
  [][(/\ last'.op \in {"upload_file", "payment_success"}
      /\ last'.req.order_id \notin DOMAIN orders) =>
       /\ last'.code = 404
       /\ orders' = orders
       /\ uploads' = uploads]_vars

\* a request on an unknown order was refused while other orders exist
C6_Witness ==
  /\ last.op \in {"upload_file", "payment_success"}
  /\ last.code = 404
  /\ last.req.order_id \notin DOMAIN orders
  /\ DOMAIN orders # {}

\* C7: create_order answers 400 whenever a required field is absent from the
\* request, a request without any JSON object included, and then persists
\* nothing.
C7_MissingFieldRejected ==
  [][(/\ last'.op = "create_order"
      /\ \/ last'.req.data = None
         \/ \E f \in {"customer_email", "customer_name", "service_type", "price"} :
              f \notin DOMAIN last'.req.data) =>
       /\ last'.code = 400
       /\ orders' = orders]_vars

\* the filename ends in a dot followed by an allowed extension, in any case
C8_HasAllowedExtension(filename) ==
  \E e \in ALLOWED_EXTENSIONS :
    /\ Len(filename) > Len(e)
    /\ filename[Len(filename) - Len(e)] = "."
    /\ lower(SubSeq(filename, Len(filename) - Len(e) + 1, Len(filename))) = e

\* C8: an upload, bound to an order or not, is accepted only if its
\* extension is allowed and its size is at most 104857600 bytes; a file of
\* exactly that size passes, one byte more is refused even with an allowed
\* extension; a refused upload stores no file and changes no order record.
C8_UploadValidation ==
  [][(last'.op \in {"upload_file_direct", "upload_file"}) =>
       LET file == last'.req.file
           size_error == Error("File size exceeds 100MB limit")
           order_known ==
             last'.op = "upload_file" => last'.req.order_id \in DOMAIN orders
       IN IF last'.code = 200
          THEN /\ file # None
               /\ C8_HasAllowedExtension(file.filename)
               /\ file.size <= 104857600
          ELSE /\ orders' = orders
               /\ uploads' = uploads
               /\ (order_known /\ file = GoodFile) => FALSE
               /\ (order_known /\ file # None /\ file.size > 104857600) =>
                    (C8_HasAllowedExtension(file.filename) =>
                       (last'.code = 400 /\ last'.body = size_error))
               /\ (file # None /\ file.size <= 104857600) => last'.body # size_error]_vars

\* an oversized file with an allowed extension was refused for an order that
\* had already accepted a file of exactly 104857600 bytes
C8_Witness ==
  /\ last.op = "upload_file"
  /\ last.code = 400
  /\ last.req.file # None
  /\ last.req.file.size = 104857601
  /\ orders[last.req.order_id]["file_uploaded"]
  /\ orders[last.req.order_id]["file_size"] = 104857600

\* C9: read views are sanitized: a get_order response never carries
\* file_path, and every list_orders entry has exactly the keys order_id,
\* customer_email, status, created_at, file_uploaded, payment_completed.
C9_ViewsSanitized ==
  /\ (last.op = "get_order" /\ last.code = 200) => "file_path" \notin DOMAIN last.body
  /\ last.op = "list_orders" =>
       \A entry \in last.body["orders"] :
         DOMAIN entry = {"order_id", "customer_email", "status", "created_at",
                         "file_uploaded", "payment_completed"}

\* get_order has answered for an order whose record holds a file_path
C9_Witness ==
  /\ last.op = "get_order"
  /\ last.code = 200
  /\ "file_path" \in DOMAIN orders[last.req.order_id]
  /\ last.body["file_uploaded"]

\* C10: orders are never deleted and keep their identity: a record stored
\* under key K is still stored under K after any request, and its order_id
\* field is K.
C10_OrdersKept ==
  [][\A k \in DOMAIN orders :
       /\ orders[k]["order_id"] = k
       /\ k \in DOMAIN orders'
       /\ orders'[k]["order_id"] = k]_vars

\* two orders are stored and one of them has just been written again
C10_Witness ==
  /\ Cardinality(DOMAIN orders) = 2
  /\ last.op \in {"upload_file", "payment_success"}
  /\ last.code = 200

FileMetadata == {"file_path", "original_filename", "file_size", "uploaded_at"}

\* C11: file metadata is present only once file_uploaded is true: a stored
\* record that has any of file_path, original_filename, file_size or
\* uploaded_at has file_uploaded = true, and the record a create-order has
\* just written has none of the four.
C11_MetadataOnlyAfterUpload ==
  /\ \A k \in DOMAIN orders :
       DOMAIN orders[k] \cap FileMetadata # {} => orders[k]["file_uploaded"] = TRUE
  /\ (last.op = "create_order" /\ last.code = 200) =>
       DOMAIN orders[last.body["order_id"]] \cap FileMetadata = {}

\* a record holds the four metadata fields, and a later payment kept them
C11_Witness ==
  \E k \in DOMAIN orders :
    /\ FileMetadata \subseteq DOMAIN orders[k]
    /\ orders[k]["file_uploaded"]
    /\ orders[k]["status"] = "paid"

\* C12: record store round trip: save replaces any prior snapshot of the same
\* order_id in full, so a load after it returns exactly the saved snapshot
\* until that id is saved again; records of other ids are untouched by the
\* save; only a save adds an id, and load of an id never saved returns None.
C12_StoreRoundTrip ==
  [][/\ last'.op = "save_order" =>
          LET saved == last'.req.order_data
              id == saved["order_id"]
          IN /\ load_order(orders', id) = saved
             /\ DOMAIN orders' = DOMAIN orders \cup {id}
             /\ \A k \in DOMAIN orders \ {id} :
                  orders'[k] = orders[k] /\ load_order(orders', k) = orders[k]
     /\ last'.op = "load_order" =>
          LET id == last'.req.order_id
          IN /\ orders' = orders
             /\ id \in DOMAIN orders => last'.body = orders[id]
             /\ id \notin DOMAIN orders => last'.body = None
     /\ (/\ last.op = "save_order"
         /\ last'.op = "load_order"
         /\ last'.req.order_id = last.req.order_data["order_id"]) =>
          last'.body = last.req.order_data]_vars

\* a save has replaced a snapshot that had file metadata by one that has
\* none, while another order's record is stored
C12_Witness ==
  /\ last.op = "save_order"
  /\ last.order_data # None
  /\ "file_path" \in DOMAIN last.order_data
  /\ "file_path" \notin DOMAIN orders[last.req.order_data["order_id"]]
  /\ Cardinality(DOMAIN orders) = 2

PaymentFields == {"payment_completed", "status", "payment_completed_at", "payment_intent_id"}

UploadFields ==
  {"file_uploaded", "file_path", "original_filename", "file_size", "uploaded_at", "status"}

\* C13: concurrent upload-file and payment-success on one order race with
\* last write wins: the record a request's save leaves is the copy that
\* request loaded plus its own update, whatever was saved in between, so
\* after both complete the record is the later writer's snapshot.
C13_LastWriteWins ==
  [][\A i \in 1..Len(requests) :
       (/\ requests[i].pc = "loaded"
        /\ requests'[i].pc = "done"
        /\ requests'[i].code = 200) =>
         LET r == requests[i]
             loaded == r.order_data
             written == IF r.op = "upload_file" THEN UploadFields ELSE PaymentFields
             record == orders'[r.req.order_id]
         IN /\ DOMAIN record \subseteq DOMAIN loaded \cup written
            /\ \A f \in DOMAIN loaded \ written : f \in DOMAIN record /\ record[f] = loaded[f]
            /\ r.op = "upload_file" =>
                 record["file_uploaded"] = TRUE /\ record["status"] = "file_uploaded"
            /\ r.op = "payment_success" =>
                 record["payment_completed"] = TRUE /\ record["status"] = "paid"]_vars

\* an upload and a payment loaded the same snapshot of one order, both were
\* answered 200, and the record lacks the update of the one that saved first
C13_Witness ==
  \E i, j \in 1..Len(requests) :
    /\ requests[i].op = "upload_file" /\ requests[j].op = "payment_success"
    /\ requests[i].pc = "done" /\ requests[j].pc = "done"
    /\ requests[i].code = 200 /\ requests[j].code = 200
    /\ requests[i].req.order_id = requests[j].req.order_id
    /\ requests[i].order_data = requests[j].order_data
    /\ LET record == orders[requests[i].req.order_id]
       IN /\ record["created_at"] = requests[i].order_data["created_at"]
          /\ \/ record["file_uploaded"] = FALSE
             \/ record["payment_completed"] = FALSE

\* C14: no order is enforced between payment and upload: payment-success
\* on an existing order is answered 200 whatever its file_uploaded (which it
\* leaves as it was), and upload-file of an acceptable file on an existing
\* order is answered 200 whatever its payment state.
C14_NoOrderingEnforced ==
  [][/\ (last'.op = "payment_success" /\ last'.req.order_id \in DOMAIN orders) =>
          LET k == last'.req.order_id
          IN /\ last'.code = 200
             /\ orders'[k]["payment_completed"] = TRUE
             /\ orders'[k]["status"] = "paid"
             /\ orders'[k]["file_uploaded"] = orders[k]["file_uploaded"]
     /\ (/\ last'.op = "upload_file"
         /\ last'.req.order_id \in DOMAIN orders
         /\ last'.req.file = GoodFile) =>
          LET k == last'.req.order_id
          IN /\ last'.code = 200
             /\ orders'[k]["file_uploaded"] = TRUE
             /\ orders'[k]["payment_completed"] = orders[k]["payment_completed"]]_vars

\* upload-file was answered 200 on a record that was paid without a file
C14_Witness ==
  /\ last.op = "upload_file"
  /\ last.code = 200
  /\ last.order_data["payment_completed"] = TRUE
  /\ last.order_data["status"] = "paid"
  /\ last.order_data["file_uploaded"] = FALSE
  /\ orders[last.req.order_id]["file_uploaded"] = TRUE

\* C15: status and flags agree in every stored record: status is one of
\* pending_payment, file_uploaded, paid; paid implies payment_completed,
\* file_uploaded implies file_uploaded = true, and pending_payment implies
\* both flags false.
C15_StatusMatchesFlags ==
  \A k \in DOMAIN orders :
    LET record == orders[k]
    IN /\ record["status"] \in {"pending_payment", "file_uploaded", "paid"}
       /\ record["status"] = "paid" => record["payment_completed"] = TRUE
       /\ record["status"] = "file_uploaded" => record["file_uploaded"] = TRUE
       /\ record["status"] = "pending_payment" =>
            (record["file_uploaded"] = FALSE /\ record["payment_completed"] = FALSE)

\* an order was paid and then given a file
C15_Witness ==
  \E m \in DOMAIN orders :
    /\ orders[m]["status"] = "file_uploaded"
    /\ orders[m]["file_uploaded"] = TRUE
    /\ orders[m]["payment_completed"] = TRUE

\* C16: get_order, list_orders and the unbound upload leave the record store
\* as it is, whether they succeed or fail; the file an unbound upload stores
\* is the file_path of no order and its answer names no order.
C16_ReadsLeaveStore ==
  [][(last'.op \in {"get_order", "list_orders", "upload_file_direct"}) =>
       /\ orders' = orders
       /\ (last'.op = "upload_file_direct" /\ last'.code = 200) =>
            LET stored == last'.body["file_id"] \o "."
                            \o Str(lower(rsplit_ext(last'.body["filename"])))
            IN /\ stored \in DOMAIN uploads'
               /\ "order_id" \notin DOMAIN last'.body
               /\ \A k \in DOMAIN orders' :
                    "file_path" \in DOMAIN orders'[k] =>
                      orders'[k]["file_path"] # "uploads/" \o stored]_vars

\* an unbound upload was stored while an order has a file of its own
C16_Witness ==
  /\ last.op = "upload_file_direct"
  /\ last.code = 200
  /\ \E k \in DOMAIN orders : "file_path" \in DOMAIN orders[k]
  /\ \E n \in DOMAIN uploads :
       \A k \in DOMAIN orders :
         "file_path" \in DOMAIN orders[k] => orders[k]["file_path"] # "uploads/" \o n

====
